---- MODULE Spec2Model ----
(***************************************************************************)
(* Model of specforge (src/main.py): the process-wide MOCK_CONFIG, the     *)
(* live route table of the FastAPI app, the generated_apis directory, and  *)
(* the requests served by the thread pool (generate_api, the generated     *)
(* mock routes guarded by verify_live_api_key, download_api), and the      *)
(* artifact written by create_python_api_file.                             *)
(*                                                                         *)
(* Strings are sequences of one-character strings, so that lower(),        *)
(* upper(), replace(" ", "") and slicing are computed and not assumed.     *)
(***************************************************************************)
EXTENDS Integers, Sequences, FiniteSets, TLC

VARIABLES MOCK_CONFIG, routes, files, req, issued

vars == <<MOCK_CONFIG, routes, files, req, issued>>

(* ------------------------------- bounds -------------------------------- *)

\* worker threads of the server's thread pool that serve requests
NumThreads == 2
\* generate_api calls accepted in one behaviour
MaxGens == 2
\* the four random digits are drawn from 0000 .. MaxRand
MaxRand == 1
\* longest app name given to the derivation of the values (lines 81-86)
MaxNameLen == 2

(* ------------------------- program constants --------------------------- *)

PrefixLen == 3
KeyDigits == 4

(* ------------------------------ strings -------------------------------- *)

\* Python's None (an absent header, an absent query parameter)
None == <<"None">>

Min(a, b) == IF a < b THEN a ELSE b

Range(s) == {s[i] : i \in 1..Len(s)}

LowerChar(c) == CASE c = "A" -> "a" [] c = "B" -> "b" [] OTHER -> c

UpperChar(c) == CASE c = "a" -> "A" [] c = "b" -> "B" [] OTHER -> c

lower(s) == [i \in 1..Len(s) |-> LowerChar(s[i])]

upper(s) == [i \in 1..Len(s) |-> UpperChar(s[i])]

IsNotSpace(c) == c # " "

\* s.replace(" ", "", 1): only the first space is removed
replace_first_space(s) ==
    LET at == {i \in 1..Len(s) : s[i] = " "} IN
    IF at = {} THEN s
    ELSE LET k == CHOOSE i \in at : \A j \in at : i <= j
         IN SubSeq(s, 1, k - 1) \o SubSeq(s, k + 1, Len(s))

\* s.replace(" ", "")
replace_space(s) == SelectSeq(s, IsNotSpace)

\* app1.lower().replace(" ", "")
clean(name) == replace_space(lower(name))

\* s[:n]
Slice(s, n) == SubSeq(s, 1, Min(n, Len(s)))

DigitChar == <<"0", "1", "2", "3", "4", "5", "6", "7", "8", "9">>

RECURSIVE Pow10(_)
Pow10(k) == IF k = 0 THEN 1 ELSE 10 * Pow10(k - 1)

\* ''.join(random.choices(string.digits, k=4)), the draw being the number n
rand_digits(n) == [i \in 1..KeyDigits |-> DigitChar[((n \div Pow10(KeyDigits - i)) % 10) + 1]]

generate_api_key(app1, app2, n) ==
    upper(Slice(app1, PrefixLen)) \o <<"-">> \o rand_digits(n) \o <<"-">> \o upper(Slice(app2, PrefixLen))

(* --------------------------- request inputs ---------------------------- *)

\* values of the app1 and app2 query parameters (None: the parameter is missing)
Names == {<<"a">>, <<"B", " ">>}

DefaultFields == << <<"i", "d">>, <<"n", "a", "m", "e">>, <<"s", "t", "a", "t", "u", "s">> >>

\* values of the repeated fields query parameter; None is "not supplied"
FieldInputs == {None, << <<"i", "d">> >>}

\* the same with names whose slug is empty, and with blank field names
AnyNames == {<<>>, <<" ">>, <<"a">>}

AnyFields == {<< <<"i", "d">> >>, << <<>> >>, << <<" ">> >>}

Rands == 0..MaxRand

Threads == 1..NumThreads

(* ------------------- values derived by generate_api -------------------- *)

\* a default that is lost: an absent parameter read as the empty list
FieldsNoDefault(fields) == IF fields = None THEN <<>> ELSE fields

\* fields: List[str] = Query(["id", "name", "status"])
FieldsOrDefault(fields) == IF fields = None THEN DefaultFields ELSE fields

\* f"sample_{f}"
Sample(f) == <<"s", "a", "m", "p", "l", "e", "_">> \o f

\* {f: f"sample_{f}" for f in fields}
example_data(fields) == [f \in Range(fields) |-> Sample(f)]

\* [f"/{app1_clean}to{app2_clean}", f"/{app2_clean}to{app1_clean}"]
endpoints(app1, app2) ==
    << <<"/">> \o clean(app1) \o <<"t", "o">> \o clean(app2),
       <<"/">> \o clean(app2) \o <<"t", "o">> \o clean(app1) >>

\* f"{app1_clean}_{app2_clean}_api.py"
filename(app1, app2) ==
    clean(app1) \o <<"_">> \o clean(app2) \o <<"_", "a", "p", "i", ".", "p", "y">>

Envelope(data) == [status |-> "success", data |-> data]

\* the dict literal handed to MOCK_CONFIG.update
NewConfig(app1, app2, fields, require_auth, n) ==
    [api_key |-> generate_api_key(app1, app2, n),
     auth_required |-> require_auth,
     example_data |-> Envelope(example_data(FieldsOrDefault(fields))),
     endpoints |-> endpoints(app1, app2)]

\* a merge that keeps the values already stored (dict.setdefault per key)
DictKeepOld(old, new) ==
    [k \in (DOMAIN old) \cup (DOMAIN new) |-> IF k \in DOMAIN old THEN old[k] ELSE new[k]]

\* an update that lands in a local dict (the global statement forgotten and
\* MOCK_CONFIG rebound): the shared dict is left as it was
DictLocal(old, new) == old

\* dict.update: keys of new are set, other keys of old are kept
DictUpdate(old, new) ==
    [k \in (DOMAIN old) \cup (DOMAIN new) |-> IF k \in DOMAIN new THEN new[k] ELSE old[k]]

\* f"'{s}'": the text is put between two quotes as it is
PyQuote(s) == <<"'">> \o s \o <<"'">>

\* the positions after the first where the source text has a quote
QuotesAfterFirst(text) == {j \in 2..Len(text) : text[j] = "'"}

\* how Python reads the source text of a single-quoted literal: the literal
\* ends at the next quote; anything left after it is not part of the string,
\* and the statement it stands in is no longer the one that was meant
PyStr(text) ==
    LET j == CHOOSE k \in QuotesAfterFirst(text) : \A m \in QuotesAfterFirst(text) : k <= m
    IN [ok |-> j = Len(text), value |-> SubSeq(text, 2, j - 1)]

\* the arguments of the call at line 129
EmitterArgs(app1, app2, fields, require_auth, n) ==
    [filename |-> filename(app1, app2),
     endpoints |-> endpoints(app1, app2),
     example_data |-> example_data(FieldsOrDefault(fields)),
     auth_required |-> require_auth,
     dynamic_api_key |-> generate_api_key(app1, app2, n)]

\* the source text create_python_api_file writes: the key as a literal, the
\* verify_api_key function when auth is required, and per endpoint a route
\* with the path as a literal, the dependency when auth is required, and the
\* returned dict (example_data is written by its repr, which Python reads
\* back as the same dict)
create_python_api_file(a) ==
    [HARDCODED_API_KEY |-> PyQuote(a.dynamic_api_key),
     verify_api_key |-> a.auth_required,
     routes |-> [i \in 1..Len(a.endpoints) |->
                   [path |-> PyQuote(a.endpoints[i]),
                    depends |-> a.auth_required,
                    returns |-> Envelope(a.example_data)]]]

\* the artifact of a generation call
Artifact(app1, app2, fields, require_auth, n) ==
    create_python_api_file(EmitterArgs(app1, app2, fields, require_auth, n))

\* the arrow of the connection text (U+2194)
ARROW == "<->"

\* the dict returned by generate_api
GenerateResponse(app1, app2, fields, require_auth, n) ==
    [message |-> "API File Generated Successfully! Live endpoints added.",
     file_name |-> filename(app1, app2),
     download_link |-> <<"/", "d", "o", "w", "n", "l", "o", "a", "d", "_", "a", "p", "i",
                         "?", "f", "i", "l", "e", "=">> \o filename(app1, app2),
     connection |-> app1 \o <<" ", ARROW, " ">> \o app2,
     auth_required |-> require_auth,
     specforge_api_key |-> generate_api_key(app1, app2, n),
     example_data |-> example_data(FieldsOrDefault(fields)),
     endpoint_example |-> endpoints(app1, app2)[1]]

Detail(msg) == [detail |-> msg]

(* ------------------------------- router -------------------------------- *)

GENERATE_PATH == <<"/", "g", "e", "n", "e", "r", "a", "t", "e", "_", "a", "p", "i">>
DOWNLOAD_PATH == <<"/", "d", "o", "w", "n", "l", "o", "a", "d", "_", "a", "p", "i">>
HOME_PATH == <<"/">>

NoData == Envelope(<<>>)

\* the routes declared by the decorators, in declaration order
BuiltinRoutes ==
    << [path |-> GENERATE_PATH, kind |-> "generate_api", handler |-> 0, mock_data |-> NoData],
       [path |-> DOWNLOAD_PATH, kind |-> "download_api", handler |-> 0, mock_data |-> NoData],
       [path |-> HOME_PATH, kind |-> "home", handler |-> 0, mock_data |-> NoData] >>

\* a registration that first removes the mock routes of earlier calls
add_api_routeFresh(table, endpoint, handler, mock_data) ==
    Append(SelectSeq(table, LAMBDA e : e.kind # "mock" \/ e.handler = handler),
           [path |-> endpoint, kind |-> "mock", handler |-> handler, mock_data |-> mock_data])

\* a registration that puts the new route in front of the table
insert_api_route(table, endpoint, handler, mock_data) ==
    <<[path |-> endpoint, kind |-> "mock", handler |-> handler, mock_data |-> mock_data]>> \o table

\* app.add_api_route(endpoint, mock_handler, methods=["GET"]): the route is
\* appended; handler names the closure (the call that made it), mock_data is
\* the value the closure captured
add_api_route(table, endpoint, handler, mock_data) ==
    Append(table, [path |-> endpoint, kind |-> "mock", handler |-> handler, mock_data |-> mock_data])

\* the characters of the alphabet used here that may start a parameter name
ParamChars == {"a", "b", "A", "B", "_"}

\* PARAM_REGEX of the router, for parameter names of one character: "{",
\* a letter or "_", "}" starting at position i of the route path
IsParam(path, i) ==
    /\ i + 2 <= Len(path)
    /\ path[i] = "{"
    /\ path[i + 1] \in ParamChars
    /\ path[i + 2] = "}"

\* compile_path raises ValueError("Duplicated param name ...") for a route
\* path that names one parameter twice
DuplicatedParams(path) ==
    \E i \in 1..Len(path), j \in 1..Len(path) :
        i < j /\ IsParam(path, i) /\ IsParam(path, j) /\ path[i + 1] = path[j + 1]

\* the regular expression compile_path builds from a route path, applied to
\* the path of a request: a parameter stands for one or more characters other
\* than "/", every other character for itself
RECURSIVE PathMatches(_, _)
PathMatches(pattern, path) ==
    IF pattern = <<>> THEN path = <<>>
    ELSE IF IsParam(pattern, 1)
    THEN \E k \in 1..Len(path) :
            /\ PathMatches(SubSeq(pattern, 4, Len(pattern)), SubSeq(path, k + 1, Len(path)))
            /\ \A j \in 1..k : path[j] # "/"
    ELSE /\ path # <<>>
         /\ path[1] = pattern[1]
         /\ PathMatches(Tail(pattern), Tail(path))

Matching(table, path) == {i \in 1..Len(table) : PathMatches(table[i].path, path)}

\* the router serves the first route of the table that matches the path; 0: none
Dispatch(table, path) ==
    LET found == Matching(table, path) IN
    IF found = {} THEN 0
    ELSE CHOOSE i \in found : \A j \in found : i <= j

MockIndexes(table) == {i \in 1..Len(table) : table[i].kind = "mock"}

(* ------------------------ verify_live_api_key -------------------------- *)

\* MOCK_CONFIG.get("auth_required") is truthy
AuthRequiredSet(cfg) == "auth_required" \in DOMAIN cfg /\ cfg["auth_required"]

\* MOCK_CONFIG.get("api_key") is truthy
ApiKeySet(cfg) == "api_key" \in DOMAIN cfg /\ cfg["api_key"] # <<>>

\* a comparison that ignores the case of the letters
KeyRejectedIgnoreCase(api_key, key) ==
    api_key = None \/ api_key = <<>> \/ lower(api_key) # lower(key)

\* not api_key or api_key != MOCK_CONFIG["api_key"]
KeyRejected(api_key, key) == api_key = None \/ api_key = <<>> \/ api_key # key

\* the guard evaluated against one configuration: TRUE permits, FALSE is the 401
verify_live_api_key(cfg, api_key) ==
    ~(AuthRequiredSet(cfg) /\ ApiKeySet(cfg) /\ KeyRejected(api_key, cfg["api_key"]))

(* ------------------------------- state --------------------------------- *)

\* a worker thread with no request
IdleReq ==
    [pc |-> "idle", kind |-> "none",
     app1 |-> <<>>, app2 |-> <<>>, fields |-> <<>>, require_auth |-> FALSE, n |-> 0,
     call |-> 0, mock_data |-> NoData,
     path |-> <<>>, api_key |-> None, route |-> 0, file |-> <<>>,
     quiet |-> TRUE, seen |-> {}, emit_failed |-> FALSE,
     status |-> 0, body |-> Detail("")]

Init ==
    /\ MOCK_CONFIG = <<>>
    /\ routes = BuiltinRoutes
    /\ files = <<>>
    /\ req = [t \in Threads |-> IdleReq]
    /\ issued = <<>>

Generating(r) == r.kind = "generate" /\ r.pc \notin {"idle", "done"}

InFlightLive(r) == r.kind = "live" /\ r.pc \notin {"idle", "done"}

\* emit_failed records, with a generation call, that its artifact write raised

\* history kept with a live request in flight: a generation started during it,
\* and the configurations that were current at some moment of it; with a
\* generation call in flight: the dict literals other calls handed to
\* MOCK_CONFIG.update during it
Overlapped(r, cfg, new) ==
    IF InFlightLive(r) THEN [r EXCEPT !.quiet = FALSE, !.seen = @ \cup {cfg}]
    ELSE IF Generating(r) THEN [r EXCEPT !.seen = @ \cup {new}]
    ELSE r

\* no computed response is waiting to be sent: a response is sent before any
\* thread takes another step
NoneDone == \A u \in Threads : req[u].pc # "done"

Respond(r, status, body) == [r EXCEPT !.pc = "done", !.status = status, !.body = body]

(* ---------------------------- generate_api ----------------------------- *)

\* a required query parameter is missing: rejected before the function runs
GenerateInvalid(t, app1, app2) ==
    /\ NoneDone
    /\ req[t].pc = "idle"
    /\ app1 = None \/ app2 = None
    /\ req' = [req EXCEPT ![t] =
                 Respond([IdleReq EXCEPT !.kind = "generate", !.app1 = app1, !.app2 = app2,
                                         !.fields = None],
                         422, Detail("Field required"))]
    /\ UNCHANGED <<MOCK_CONFIG, routes, files, issued>>

\* a call that registers its two routes first and leaves the replacement of
\* MOCK_CONFIG for later
GenerateRoutesFirst(t, app1, app2, fields, require_auth, n) ==
    /\ NoneDone
    /\ req[t].pc = "idle"
    /\ Len(issued) < MaxGens
    /\ app1 # None /\ app2 # None
    /\ routes' = add_api_route(
                    add_api_route(routes, endpoints(app1, app2)[1], Len(issued) + 1,
                                  Envelope(example_data(FieldsOrDefault(fields)))),
                    endpoints(app1, app2)[2], Len(issued) + 1,
                    Envelope(example_data(FieldsOrDefault(fields))))
    /\ issued' = Append(issued, generate_api_key(app1, app2, n))
    /\ req' = [req EXCEPT ![t] =
                 [IdleReq EXCEPT !.pc = "handler", !.kind = "generate",
                                 !.app1 = app1, !.app2 = app2, !.fields = fields,
                                 !.require_auth = require_auth, !.n = n,
                                 !.call = Len(issued')]]
    /\ UNCHANGED <<MOCK_CONFIG, files>>

\* lines 81-96: the derived values and MOCK_CONFIG.update
GenerateUpdate(t, app1, app2, fields, require_auth, n) ==
    /\ NoneDone
    /\ req[t].pc = "idle"
    /\ Len(issued) < MaxGens
    /\ app1 # None /\ app2 # None
    /\ MOCK_CONFIG' = DictUpdate(MOCK_CONFIG, NewConfig(app1, app2, fields, require_auth, n))
    /\ issued' = Append(issued, generate_api_key(app1, app2, n))
    /\ req' = [u \in Threads |->
                 IF u = t
                 THEN [IdleReq EXCEPT !.pc = "handler", !.kind = "generate",
                                      !.app1 = app1, !.app2 = app2, !.fields = fields,
                                      !.require_auth = require_auth, !.n = n,
                                      !.call = Len(issued')]
                 ELSE Overlapped(req[u], MOCK_CONFIG',
                                 NewConfig(app1, app2, fields, require_auth, n))]
    /\ UNCHANGED <<routes, files>>

\* line 115: create_mock_handler(MOCK_CONFIG["example_data"], require_auth)
GenerateHandler(t) ==
    /\ NoneDone
    /\ req[t].kind = "generate" /\ req[t].pc = "handler"
    /\ req' = [req EXCEPT ![t].pc = "route1", ![t].mock_data = MOCK_CONFIG["example_data"]]
    /\ UNCHANGED <<MOCK_CONFIG, routes, files, issued>>

\* lines 117-126, first and second turn of the loop
GenerateRoute(t, i) ==
    /\ NoneDone
    /\ req[t].kind = "generate"
    /\ req[t].pc = (IF i = 1 THEN "route1" ELSE "route2")
    /\ LET endpoint == endpoints(req[t].app1, req[t].app2)[i] IN
       IF DuplicatedParams(endpoint)
       THEN \* add_api_route raises; nothing catches it: the call ends here
            /\ routes' = routes
            /\ req' = [req EXCEPT ![t] = Respond(req[t], 500, Detail("Internal Server Error"))]
       ELSE /\ routes' = add_api_route(routes, endpoint, req[t].call, req[t].mock_data)
            /\ req' = [req EXCEPT ![t].pc = (IF i = 1 THEN "route2" ELSE "emit")]
    /\ UNCHANGED <<MOCK_CONFIG, files, issued>>

WriteFile(store, name, content) ==
    [f \in (DOMAIN store) \cup {name} |-> IF f = name THEN content ELSE store[f]]

\* lines 129-141: create_python_api_file, then the returned dict; the write
\* can fail (OSError), which ends the request with a server error
GenerateEmit(t, ok) ==
    /\ NoneDone
    /\ req[t].kind = "generate" /\ req[t].pc = "emit"
    /\ LET r == req[t] IN
       IF ok
       THEN /\ files' = WriteFile(files, filename(r.app1, r.app2),
                                  Artifact(r.app1, r.app2, r.fields, r.require_auth, r.n))
            /\ req' = [req EXCEPT ![t] =
                         Respond(r, 200, GenerateResponse(r.app1, r.app2, r.fields, r.require_auth, r.n))]
       ELSE /\ files' = files
            /\ req' = [req EXCEPT ![t] =
                         Respond([r EXCEPT !.emit_failed = TRUE], 500, Detail("Internal Server Error"))]
    /\ UNCHANGED <<MOCK_CONFIG, routes, issued>>

(* ------------------------- live mock requests -------------------------- *)

\* the paths a client asks for: every generated path, and one never generated
UNKNOWN_PATH == <<"/", "x">>

LivePaths ==
    {routes[i].path : i \in MockIndexes(routes)}
        \cup (IF "endpoints" \in DOMAIN MOCK_CONFIG THEN Range(MOCK_CONFIG["endpoints"]) ELSE {})
        \cup {UNKNOWN_PATH}

\* the X-API-Key header values a client sends: none, empty, every key issued
\* so far, and the current key in lower case
LiveKeys ==
    {None, <<>>} \cup Range(issued)
        \cup (IF "api_key" \in DOMAIN MOCK_CONFIG THEN {lower(MOCK_CONFIG["api_key"])} ELSE {})

\* the router picks the route; no route: 404
LiveDispatch(t, path, api_key) ==
    /\ NoneDone
    /\ req[t].pc = "idle"
    /\ LET m == Dispatch(routes, path)
           r == [IdleReq EXCEPT !.kind = "live", !.path = path, !.api_key = api_key, !.route = m,
                                !.quiet = \A u \in Threads : ~Generating(req[u]),
                                !.seen = {MOCK_CONFIG}]
       IN req' = [req EXCEPT ![t] =
                    IF m = 0 THEN Respond(r, 404, Detail("Not Found"))
                    ELSE [r EXCEPT !.pc = "auth"]]
    /\ UNCHANGED <<MOCK_CONFIG, routes, files, issued>>

\* mock_handler: JSONResponse(content=mock_data, status_code=200)
mock_handler(r) == Respond(r, 200, routes[r.route].mock_data)

Unauthorized(r) == Respond(r, 401, Detail("Invalid or missing X-API-Key header"))

\* line 35, left operand: MOCK_CONFIG.get("auth_required")
GuardAuth(t) ==
    /\ NoneDone
    /\ req[t].kind = "live" /\ req[t].pc = "auth"
    /\ req' = [req EXCEPT ![t] =
                 IF AuthRequiredSet(MOCK_CONFIG) THEN [@ EXCEPT !.pc = "key"] ELSE mock_handler(@)]
    /\ UNCHANGED <<MOCK_CONFIG, routes, files, issued>>

\* line 35, right operand: MOCK_CONFIG.get("api_key")
GuardKey(t) ==
    /\ NoneDone
    /\ req[t].kind = "live" /\ req[t].pc = "key"
    /\ req' = [req EXCEPT ![t] =
                 IF ApiKeySet(MOCK_CONFIG) THEN [@ EXCEPT !.pc = "compare"] ELSE mock_handler(@)]
    /\ UNCHANGED <<MOCK_CONFIG, routes, files, issued>>

\* a guard that, instead of answering 401, waits until the stored credential
\* is the presented one
GuardCompareWait(t) ==
    /\ NoneDone
    /\ req[t].kind = "live" /\ req[t].pc = "compare"
    /\ ~KeyRejected(req[t].api_key, MOCK_CONFIG["api_key"])
    /\ req' = [req EXCEPT ![t] = mock_handler(@)]
    /\ UNCHANGED <<MOCK_CONFIG, routes, files, issued>>

\* line 36: the comparison against MOCK_CONFIG["api_key"], then 401 or the handler
GuardCompare(t) ==
    /\ NoneDone
    /\ req[t].kind = "live" /\ req[t].pc = "compare"
    /\ req' = [req EXCEPT ![t] =
                 IF KeyRejected(@.api_key, MOCK_CONFIG["api_key"]) THEN Unauthorized(@)
                 ELSE mock_handler(@)]
    /\ UNCHANGED <<MOCK_CONFIG, routes, files, issued>>

(* ----------------------------- download_api ---------------------------- *)

GENERATED_DIR == <<"g", "e", "n", "e", "r", "a", "t", "e", "d", "_", "a", "p", "i", "s">>

\* a file of the host outside generated_apis, by its absolute path
HOST_FILE == <<"/", "e", "t", "c", "/", "h", "o", "s", "t", "s">>

HostContent == [host_file |-> HOST_FILE]

\* a file name no generation of the model emits
NEVER_EMITTED == <<"x">>

\* os.path.join(a, b): an absolute b discards a
os_path_join(a, b) == IF b # <<>> /\ b[1] = "/" THEN b ELSE a \o <<"/">> \o b

\* the paths of the artifacts stored in generated_apis
ArtifactPaths(store) == {os_path_join(GENERATED_DIR, f) : f \in DOMAIN store}

\* the directory itself, once os.makedirs has run and an artifact is in it
DirPaths(store) == IF DOMAIN store = {} THEN {} ELSE {os_path_join(GENERATED_DIR, <<>>)}

\* os.path.exists(path)
os_path_exists(store, path) ==
    path \in ArtifactPaths(store) \cup DirPaths(store) \cup {HOST_FILE}

\* the bytes FileResponse sends for a regular file
ReadFile(store, path) ==
    IF path = HOST_FILE THEN HostContent
    ELSE store[CHOOSE f \in DOMAIN store : os_path_join(GENERATED_DIR, f) = path]

\* a download that removes the artifact it has served
download_apiOnce(t, file) ==
    /\ NoneDone
    /\ req[t].pc = "idle"
    /\ LET path == os_path_join(GENERATED_DIR, file)
           r == [IdleReq EXCEPT !.kind = "download", !.file = file]
       IN IF path \in ArtifactPaths(files)
          THEN /\ req' = [req EXCEPT ![t] = Respond(r, 200, ReadFile(files, path))]
               /\ files' = [f \in (DOMAIN files) \ {file} |-> files[f]]
          ELSE /\ req' = [req EXCEPT ![t] = Respond(r, 404, Detail("File not found"))]
               /\ files' = files
    /\ UNCHANGED <<MOCK_CONFIG, routes, issued>>

\* lines 147-151; FileResponse raises when the path is not a regular file,
\* which the server reports as a 500
download_api(t, file) ==
    /\ NoneDone
    /\ req[t].pc = "idle"
    /\ LET path == os_path_join(GENERATED_DIR, file)
           r == [IdleReq EXCEPT !.kind = "download", !.file = file]
       IN req' = [req EXCEPT ![t] =
                    IF os_path_exists(files, path)
                    THEN IF path \in DirPaths(files)
                         THEN Respond(r, 500, Detail("Internal Server Error"))
                         ELSE Respond(r, 200, ReadFile(files, path))
                    ELSE Respond(r, 404, Detail("File not found"))]
    /\ UNCHANGED <<MOCK_CONFIG, routes, files, issued>>

\* the values of the file query parameter: the artifact names of appNames, a
\* name never emitted, an absolute path, the empty string
DownloadNames(appNames) ==
    {filename(a, b) : a \in appNames, b \in appNames} \cup {NEVER_EMITTED, HOST_FILE, <<>>}

\* a download request served by a thread of T
DownloadStep(T, appNames) ==
    \E t \in T, file \in DownloadNames(appNames) : download_api(t, file)

\* the response is sent and the worker thread is free again
Finish(t) ==
    /\ req[t].pc = "done"
    /\ req' = [req EXCEPT ![t] = IdleReq]
    /\ UNCHANGED <<MOCK_CONFIG, routes, files, issued>>

\* a step of a generation call served by a thread of T, the inputs drawn from
\* appNames and fieldLists, the outcome of the artifact write from emits
GenerateStep(T, appNames, fieldLists, emits) ==
    \E t \in T :
        \/ \E app1 \in appNames \cup {None}, app2 \in appNames \cup {None} :
              GenerateInvalid(t, app1, app2)
        \/ \E app1 \in appNames, app2 \in appNames, fields \in fieldLists,
              require_auth \in BOOLEAN, n \in Rands :
                GenerateUpdate(t, app1, app2, fields, require_auth, n)
        \/ GenerateHandler(t)
        \/ \E i \in 1..2 : GenerateRoute(t, i)
        \/ \E ok \in emits : GenerateEmit(t, ok)

\* a step of a request to a generated route served by a thread of T
LiveStep(T) ==
    \E t \in T :
        \/ \E path \in LivePaths, api_key \in LiveKeys : LiveDispatch(t, path, api_key)
        \/ GuardAuth(t)
        \/ GuardKey(t)
        \/ GuardCompare(t)

\* one step of the server
Step(T, appNames, fieldLists, emits) ==
    \/ \E t \in T : Finish(t)
    \/ GenerateStep(T, appNames, fieldLists, emits)
    \/ LiveStep(T)

\* requests served one after the other, every artifact write succeeding
Next == Step({1}, Names, FieldInputs, {TRUE})

Spec == Init /\ [][Next]_vars

\* generation calls alone, one after the other
NextGen ==
    \/ \E t \in {1} : Finish(t)
    \/ GenerateStep({1}, Names, FieldInputs, {TRUE})

SpecGen == Init /\ [][NextGen]_vars

\* requests served one after the other, all generations for one pair of names
OneName == {<<"a">>}

NextOne == Step({1}, OneName, FieldInputs, {TRUE})

SpecOne == Init /\ [][NextOne]_vars

\* requests served one after the other, with every input FastAPI lets through
NextAny == Step({1}, AnyNames, AnyFields, {TRUE})

SpecAny == Init /\ [][NextAny]_vars

\* requests served concurrently by the threads of the pool
NextConc == Step(Threads, OneName, FieldInputs, {TRUE})

SpecConc == Init /\ [][NextConc]_vars

\* requests served one after the other, all generations for one pair of names,
\* the artifact write succeeding or raising
NextEmit == Step({1}, OneName, FieldInputs, BOOLEAN)

SpecEmit == Init /\ [][NextEmit]_vars

\* generations for one pair of names and downloads, one after the other
NextDown ==
    \/ \E t \in {1} : Finish(t)
    \/ GenerateStep({1}, OneName, FieldInputs, {TRUE})
    \/ DownloadStep({1}, OneName)

SpecDown == Init /\ [][NextDown]_vars

\* generation calls alone, for names with a quote character
QuoteNames == {<<"a">>, <<"'">>}

NextArt ==
    \/ \E t \in {1} : Finish(t)
    \/ GenerateStep({1}, QuoteNames, FieldInputs, {TRUE})

SpecArt == Init /\ [][NextArt]_vars

\* generations only, for names that are a plain word or a path parameter of
\* the router
TemplateNames == {<<"a">>, <<"{", "b", "}">>}

NextTemplate ==
    \/ \E t \in {1} : Finish(t)
    \/ GenerateStep({1}, TemplateNames, FieldInputs, {TRUE})

SpecTemplate == Init /\ [][NextTemplate]_vars

\* generations for one pair of names, the artifact write succeeding or
\* raising, live requests and downloads, one after the other
NextAll ==
    \/ Step({1}, OneName, FieldInputs, BOOLEAN)
    \/ DownloadStep({1}, OneName)

SpecAll == Init /\ [][NextAll]_vars

\* generation calls only, served concurrently, for a plain name and a path
\* parameter with the default fields
NextCalls ==
    \/ \E t \in Threads : Finish(t)
    \/ GenerateStep(Threads, TemplateNames, {None}, {TRUE})

SpecCalls == Init /\ [][NextCalls]_vars

\* one thread serving generation calls while another serves live requests
NextRace ==
    \/ \E t \in Threads : Finish(t)
    \/ GenerateStep({1}, OneName, FieldInputs, {TRUE})
    \/ LiveStep({2})

SpecRace == Init /\ [][NextRace]_vars

\* generations for a plain name and a path parameter with the default
\* fields, live requests and downloads, one after the other
NextPaths ==
    \/ Step({1}, TemplateNames, {None}, {TRUE})
    \/ DownloadStep({1}, TemplateNames)

SpecPaths == Init /\ [][NextPaths]_vars

\* the next step of the request the thread t is serving, the sending of the
\* response included
Continue(t) ==
    \/ GenerateHandler(t)
    \/ \E i \in 1..2 : GenerateRoute(t, i)
    \/ GenerateEmit(t, TRUE)
    \/ GuardAuth(t)
    \/ GuardKey(t)
    \/ GuardCompare(t)
    \/ Finish(t)

\* one thread serving generation calls (with the default fields) and another
\* live requests, under a fair scheduler: a thread with a request in hand
\* gets its turn again and again. The handlers are plain functions run by the
\* threads of the pool and take no lock, so in the program a thread's next
\* step is always possible; here a step is postponed only while a computed
\* response of another thread is being sent (NoneDone), hence strong fairness.
NextFair ==
    \/ \E t \in Threads : Finish(t)
    \/ GenerateStep({1}, OneName, {None}, {TRUE})
    \/ LiveStep({2})

SpecFair == Init /\ [][NextFair]_vars /\ \A t \in Threads : SF_vars(Continue(t))

(* ------------- the values derived from the query parameters ------------ *)

\* characters of the names: a lower-case letter, an upper-case letter, a
\* space and a tab
NameChars == {"a", "B", " ", "\t"}

\* the strings over S of length at most n
Strings(S, n) == UNION {[1..k -> S] : k \in 0..n}

DeriveNames == Strings(NameChars, MaxNameLen)

\* field lists: absent, one field, a field given twice, two fields
DeriveFields ==
    {None, << <<"i", "d">> >>, << <<"i", "d">>, <<"i", "d">> >>,
     << <<"i", "d">>, <<"n", "a", "m", "e">> >>}

\* the require_auth query parameter as sent: absent, "true", "false"
AuthParams == {None, <<"t", "r", "u", "e">>, <<"f", "a", "l", "s", "e">>}

\* require_auth: bool = Query(True)
RequireAuthOrDefault(param) == IF param = None THEN TRUE ELSE param = <<"t", "r", "u", "e">>

\* a generate_api call that has its query parameters and has not run yet
DeriveReq(app1, app2, fields, param) ==
    [pc |-> "args", kind |-> "derive", app1 |-> app1, app2 |-> app2, fields |-> fields,
     require_auth |-> param, locals |-> <<>>]

InitDerive ==
    /\ MOCK_CONFIG = <<>>
    /\ routes = BuiltinRoutes
    /\ files = <<>>
    /\ issued = <<>>
    /\ \E app1 \in DeriveNames, app2 \in DeriveNames, fields \in DeriveFields, param \in AuthParams :
          req = [t \in Threads |-> IF t = 1 THEN DeriveReq(app1, app2, fields, param) ELSE IdleReq]

\* lines 73-86: the parameters with their defaults and the local variables
\* computed from them, n being the draw of random.choices
Derive(t, n) ==
    /\ req[t].kind = "derive" /\ req[t].pc = "args"
    /\ LET r == req[t] IN
       req' = [req EXCEPT ![t] =
                 [r EXCEPT !.pc = "done",
                           !.locals =
                              [fields |-> FieldsOrDefault(r.fields),
                               require_auth |-> RequireAuthOrDefault(r.require_auth),
                               api_key |-> generate_api_key(r.app1, r.app2, n),
                               app1_clean |-> clean(r.app1),
                               app2_clean |-> clean(r.app2),
                               endpoints |-> endpoints(r.app1, r.app2),
                               example_data |-> example_data(FieldsOrDefault(r.fields)),
                               filename |-> filename(r.app1, r.app2)]]]
    /\ UNCHANGED <<MOCK_CONFIG, routes, files, issued>>

NextDerive ==
    \E t \in {1} :
        \/ \E n \in Rands : Derive(t, n)
        \/ Finish(t)

SpecDerive == InitDerive /\ [][NextDerive]_vars

(* ------------------------- properties: helpers -------------------------- *)

\* a request to a generated route that has been answered
LiveDone(r) == r.kind = "live" /\ r.pc = "done" /\ r.route # 0

\* a generation call that has returned its result
GenerateDone(r) == r.kind = "generate" /\ r.pc = "done" /\ r.status = 200

\* the answer the request r gets when the guard is judged against cfg alone
Outcome(cfg, r) ==
    IF verify_live_api_key(cfg, r.api_key)
    THEN <<200, routes[r.route].mock_data>>
    ELSE <<401, Detail("Invalid or missing X-API-Key header")>>

\* the name is missing or its slug is empty
EmptySlug(name) == name = None \/ clean(name) = <<>>

\* the field list was supplied and every entry of it is blank
BlankFields(fields) ==
    fields # None /\ \A i \in 1..Len(fields) : SelectSeq(fields[i], IsNotSpace) = <<>>

Last(S) == CHOOSE i \in S : \A j \in S : j <= i

(* -------------------------------- claims -------------------------------- *)

\* C1: a permitted live GET returns the envelope of the most recent
\* generation, whichever generation registered the path.
C1_LatestPayload ==
    \A t \in Threads :
        LiveDone(req[t]) /\ req[t].status = 200
            => req[t].body = MOCK_CONFIG["example_data"]

\* C2: every generated route applies the auth flag and the credential of the
\* most recent generation: with auth required only the latest credential is
\* accepted and a credential issued by an earlier generation gets 401; with
\* auth not required every request is permitted.
C2_LatestAuth ==
    \A t \in Threads :
        LiveDone(req[t]) =>
            IF MOCK_CONFIG["auth_required"]
            THEN /\ req[t].status = 200 <=> req[t].api_key = MOCK_CONFIG["api_key"]
                 /\ (\E i \in 1..(Len(issued) - 1) : issued[i] = req[t].api_key)
                        => req[t].status = 401
            ELSE req[t].status = 200

C4_OpenRoundTrip ==
    \A t \in Threads :
        /\ LiveDone(req[t]) /\ req[t].quiet
        /\ ~MOCK_CONFIG["auth_required"]
        /\ req[t].path \in Range(MOCK_CONFIG["endpoints"])
        => /\ req[t].status = 200
           /\ req[t].body = MOCK_CONFIG["example_data"]

\* C5: a live request that overlaps a generation is answered as it would be
\* against one of the configurations that were current during it, the old one
\* or the new one.
C5_OldOrNew ==
    \A t \in Threads :
        LiveDone(req[t]) =>
            \E cfg \in req[t].seen : <<req[t].status, req[t].body>> = Outcome(cfg, req[t])

\* C6: when a generation call returns, the store holds exactly the four values
\* derived from that call's inputs and nothing written by an earlier call.
C6_Replaced ==
    \A t \in Threads :
        GenerateDone(req[t]) =>
            LET r == req[t] IN
            /\ DOMAIN MOCK_CONFIG = {"api_key", "auth_required", "example_data", "endpoints"}
            /\ MOCK_CONFIG["api_key"] = generate_api_key(r.app1, r.app2, r.n)
            /\ MOCK_CONFIG["auth_required"] = r.require_auth
            /\ MOCK_CONFIG["example_data"] = Envelope(example_data(FieldsOrDefault(r.fields)))
            /\ MOCK_CONFIG["endpoints"] = endpoints(r.app1, r.app2)

\* a second call has returned, after a first one that differed in every field
C6_Witness ==
    \E t \in Threads :
        /\ GenerateDone(req[t])
        /\ Len(issued) = 2 /\ issued[1] # issued[2]
        /\ Len(routes) = Len(BuiltinRoutes) + 4
        /\ routes[Len(BuiltinRoutes) + 1].path # MOCK_CONFIG["endpoints"][1]
        /\ routes[Len(BuiltinRoutes) + 1].mock_data # MOCK_CONFIG["example_data"]

\* C7: the credential of a generation call differs from the credential of the
\* call before it.
C7_FreshCredential ==
    \A i \in 1..(Len(issued) - 1) : issued[i] # issued[i + 1]

\* C8: a generation call whose app1 or app2 is missing or has an empty slug is
\* rejected, and it changes neither the configuration, nor the route table,
\* nor the artifact store (stated for calls whose fields are not blank).
C8_EmptyNameRejected ==
    [][\A t \in Threads :
          /\ req'[t] # req[t] /\ req'[t].kind = "generate"
          /\ EmptySlug(req'[t].app1) \/ EmptySlug(req'[t].app2)
          /\ ~BlankFields(req'[t].fields)
          => /\ req'[t].pc = "done" /\ req'[t].status = 422
             /\ UNCHANGED <<MOCK_CONFIG, routes, files>>]_vars

\* C9: a generation call whose supplied fields are all blank is rejected, and
\* neither the configuration is replaced nor a route registered (stated for
\* calls whose two names have a slug that is not empty).
C9_BlankFieldsRejected ==
    [][\A t \in Threads :
          /\ req'[t] # req[t] /\ req'[t].kind = "generate"
          /\ BlankFields(req'[t].fields)
          /\ ~EmptySlug(req'[t].app1) /\ ~EmptySlug(req'[t].app2)
          => /\ req'[t].pc = "done" /\ req'[t].status \notin {0, 200}
             /\ UNCHANGED <<MOCK_CONFIG, routes>>]_vars

\* C10: the route table holds at most one entry per path, or a request to a
\* path with several entries is served by the handler registered last.
C10_OneRoutePerPath ==
    \A i \in 1..Len(routes) :
        LET same == Matching(routes, routes[i].path) IN
        \/ Cardinality(same) <= 1
        \/ routes[Dispatch(routes, routes[i].path)].handler = routes[Last(same)].handler

(* ------------------------ claims: derived values ------------------------ *)

\* a generation call that passed validation and has run to its end
GenerateEnded(r) == r.kind = "generate" /\ r.pc = "done" /\ r.status # 422

\* "/" + slug(a) + "to" + slug(b)
SlugPath(a, b) == <<"/">> \o clean(a) \o <<"t", "o">> \o clean(b)

\* the entries of the route table registered by the call numbered c
RoutesOf(c) == {i \in MockIndexes(routes) : routes[i].handler = c}

\* C11: an accepted generation call computes exactly two paths, "/" +
\* slug(app1) + "to" + slug(app2) and "/" + slug(app2) + "to" + slug(app1) in
\* that order, stores them in the configuration and registers them, in that
\* order, as live routes.
C11_TwoPaths ==
    \A t \in Threads :
        GenerateEnded(req[t]) =>
            LET r == req[t]
                first == SlugPath(r.app1, r.app2)
                second == SlugPath(r.app2, r.app1)
            IN /\ MOCK_CONFIG["endpoints"] = <<first, second>>
               /\ RoutesOf(r.call) = {Len(routes) - 1, Len(routes)}
               /\ routes[Len(routes) - 1].path = first
               /\ routes[Len(routes)].path = second
               /\ Dispatch(routes, first) # 0 /\ Dispatch(routes, second) # 0

\* the first three characters of the slug of a name, upper-cased
SlugPrefix(name) == upper(Slice(clean(name), PrefixLen))

\* key is p, "-", four decimal digits, "-", s
HasKeyForm(key, p, s) ==
    /\ Len(key) = Len(p) + KeyDigits + Len(s) + 2
    /\ SubSeq(key, 1, Len(p)) = p
    /\ key[Len(p) + 1] = "-"
    /\ \A i \in (Len(p) + 2)..(Len(p) + 1 + KeyDigits) : key[i] \in Range(DigitChar)
    /\ key[Len(p) + KeyDigits + 2] = "-"
    /\ SubSeq(key, Len(p) + KeyDigits + 3, Len(key)) = s

\* C12: the credential of a generation call is P-DDDD-S, DDDD four decimal
\* digits, P and S the first three characters of slug(app1) and of slug(app2),
\* upper-cased.
C12_KeyFromSlugs ==
    \A t \in Threads :
        GenerateEnded(req[t]) =>
            HasKeyForm(MOCK_CONFIG["api_key"], SlugPrefix(req[t].app1), SlugPrefix(req[t].app2))

(* -------------------- claims: failures and responses -------------------- *)

\* the answer of the server, in the current state and with no generation under
\* way, to a GET of path that carries api_key as its X-API-Key header
LiveAnswer(path, api_key) ==
    LET m == Dispatch(routes, path) IN
    IF m = 0 THEN <<404, Detail("Not Found")>>
    ELSE IF verify_live_api_key(MOCK_CONFIG, api_key)
         THEN <<200, routes[m].mock_data>>
         ELSE <<401, Detail("Invalid or missing X-API-Key header")>>

\* C13: when the artifact write of a generation call fails, the caller gets
\* the failure, the configuration is the one of that call, its two routes are
\* registered, and a GET of either path with the new credential is answered
\* with the new payload.
C13_FailedEmitKeepsLive ==
    \A t \in Threads :
        req[t].kind = "generate" /\ req[t].pc = "done" /\ req[t].emit_failed =>
            LET r == req[t] IN
            /\ r.status = 500
            /\ MOCK_CONFIG = NewConfig(r.app1, r.app2, r.fields, r.require_auth, r.n)
            /\ RoutesOf(r.call) = {Len(routes) - 1, Len(routes)}
            /\ \A i \in 1..2 :
                  /\ routes[Len(routes) - 2 + i].path = MOCK_CONFIG["endpoints"][i]
                  /\ LiveAnswer(MOCK_CONFIG["endpoints"][i], MOCK_CONFIG["api_key"])
                        = <<200, MOCK_CONFIG["example_data"]>>

\* C14: while the configuration requires auth, a GET with a missing or wrong
\* credential gets the answer that the same header gets on any registered
\* generated path, whether the path it asked for is registered or not.
C14_NoPathLeak ==
    \A t \in Threads :
        /\ req[t].kind = "live" /\ req[t].pc = "done" /\ req[t].quiet
        /\ AuthRequiredSet(MOCK_CONFIG)
        /\ KeyRejected(req[t].api_key, MOCK_CONFIG["api_key"])
        => \A i \in MockIndexes(routes) :
              <<req[t].status, req[t].body>> = LiveAnswer(routes[i].path, req[t].api_key)

\* C15: a download is answered 200 with the stored content only for the name
\* of an artifact that a generation call emitted and that is still stored;
\* for every other name it is answered 404 without file content.
C15_DownloadOnlyEmitted ==
    \A t \in Threads :
        req[t].kind = "download" /\ req[t].pc = "done" =>
            IF req[t].file \in DOMAIN files
            THEN req[t].status = 200 /\ req[t].body = files[req[t].file]
            ELSE req[t].status = 404 /\ req[t].body = Detail("File not found")

(* ----------------------- claims: result and artifact -------------------- *)

\* the route paths a caller can read from the result of a generation call
ResultPaths(body) == {body.endpoint_example}

\* C16: the result of a successful generation call holds the credential, both
\* route paths, the payload template, the auth flag and the artifact's name,
\* each equal to what the call stored in the configuration and to what the
\* stored artifact was rendered from.
C16_ResultComplete ==
    \A t \in Threads :
        GenerateDone(req[t]) =>
            LET b == req[t].body IN
            /\ b.specforge_api_key = MOCK_CONFIG["api_key"]
            /\ Envelope(b.example_data) = MOCK_CONFIG["example_data"]
            /\ b.auth_required = MOCK_CONFIG["auth_required"]
            /\ b.file_name \in DOMAIN files
            /\ files[b.file_name] =
                  create_python_api_file([filename |-> b.file_name,
                                          endpoints |-> MOCK_CONFIG["endpoints"],
                                          example_data |-> b.example_data,
                                          auth_required |-> b.auth_required,
                                          dynamic_api_key |-> b.specforge_api_key])
            /\ Range(MOCK_CONFIG["endpoints"]) \subseteq ResultPaths(b)

(* the artifact run standalone *)

\* the module imports: every literal of the text reads as the string meant
ArtifactLoads(art) ==
    /\ PyStr(art.HARDCODED_API_KEY).ok
    /\ \A i \in 1..Len(art.routes) : PyStr(art.routes[i].path).ok

\* the routes of the artifact's app that match path
ArtifactMatching(art, path) ==
    {i \in 1..Len(art.routes) : PyStr(art.routes[i].path).value = path}

\* the answer of the artifact's app to a GET of path with the header api_key;
\* status 0: there is no server, the module failed to import
ArtifactAnswer(art, path, api_key) ==
    IF ~ArtifactLoads(art) THEN <<0, Detail("SyntaxError")>>
    ELSE IF ArtifactMatching(art, path) = {} THEN <<404, Detail("Not Found")>>
    ELSE LET m == CHOOSE i \in ArtifactMatching(art, path) :
                      \A j \in ArtifactMatching(art, path) : i <= j
         IN IF art.routes[m].depends
                /\ KeyRejected(api_key, PyStr(art.HARDCODED_API_KEY).value)
            THEN <<401, Detail("Invalid or missing X-API-Key header")>>
            ELSE <<200, art.routes[m].returns>>

\* header values tried against both servers
ProbeKeys ==
    {None, <<>>, MOCK_CONFIG["api_key"], lower(MOCK_CONFIG["api_key"])} \cup Range(issued)

\* C17: when a generation call has returned, its artifact run standalone
\* embeds the call's credential, has the gate exactly when require_auth was
\* true, and answers every path and header value as the live mock does.
C17_ArtifactAsLive ==
    \A t \in Threads :
        GenerateDone(req[t]) =>
            LET art == files[req[t].body.file_name] IN
            /\ PyStr(art.HARDCODED_API_KEY) = [ok |-> TRUE, value |-> MOCK_CONFIG["api_key"]]
            /\ art.verify_api_key = req[t].require_auth
            /\ \A path \in Range(MOCK_CONFIG["endpoints"]) \cup {UNKNOWN_PATH},
                  api_key \in ProbeKeys :
                    ArtifactAnswer(art, path, api_key) = LiveAnswer(path, api_key)

(* ---------------------- claims: slug and payload ------------------------ *)

\* the derivation of the values of a call has run
Derived(r) == r.kind = "derive" /\ r.pc = "done"

\* C18: the normalization of app1 and app2 is deterministic and idempotent:
\* equal names have equal slugs, and the slug of a slug is that slug.
C18_SlugIdempotent ==
    \A t \in Threads :
        Derived(req[t]) =>
            LET r == req[t] IN
            /\ r.app1 = r.app2 => r.locals.app1_clean = r.locals.app2_clean
            /\ clean(r.locals.app1_clean) = r.locals.app1_clean
            /\ clean(r.locals.app2_clean) = r.locals.app2_clean

\* the slug of a two-character name with an upper-case letter and a space
\* has been computed, and one of a name with two spaces
C18_Witness ==
    \E t \in Threads :
        /\ Derived(req[t])
        /\ req[t].app1 = <<"B", " ">> /\ req[t].locals.app1_clean = <<"b">>
        /\ req[t].app2 = <<" ", " ">> /\ req[t].locals.app2_clean = <<>>

WhitespaceChars == {" ", "\t", "\n"}

UpperChars == {"A", "B"}

\* no whitespace character and no upper-case letter in s
IsSlugText(s) == \A i \in 1..Len(s) : s[i] \notin WhitespaceChars \cup UpperChars

\* C19: the slugs, the route paths and the artifact file name built from
\* them hold no whitespace character (space, tab, newline) and no upper-case
\* letter.
C19_NoWhitespace ==
    \A t \in Threads :
        Derived(req[t]) =>
            LET l == req[t].locals IN
            /\ IsSlugText(l.app1_clean) /\ IsSlugText(l.app2_clean)
            /\ IsSlugText(l.endpoints[1]) /\ IsSlugText(l.endpoints[2])
            /\ IsSlugText(l.filename)

\* C20: the payload template maps every supplied field f to "sample_" + f,
\* its keys are exactly the supplied field names, a repeated name giving one
\* key; fields not supplied are ["id", "name", "status"], require_auth not
\* supplied is true.
C20_PayloadTemplate ==
    \A t \in Threads :
        Derived(req[t]) =>
            LET r == req[t]
                supplied == IF r.fields = None THEN DefaultFields ELSE r.fields
            IN /\ r.fields = None =>
                     r.locals.fields = << <<"i", "d">>, <<"n", "a", "m", "e">>,
                                          <<"s", "t", "a", "t", "u", "s">> >>
               /\ DOMAIN r.locals.example_data = Range(supplied)
               /\ \A f \in Range(supplied) :
                     r.locals.example_data[f] = <<"s", "a", "m", "p", "l", "e", "_">> \o f
               /\ r.require_auth = None => r.locals.require_auth

\* a call with neither fields nor require_auth has had its values derived
C20_Witness ==
    \E t \in Threads :
        /\ Derived(req[t])
        /\ req[t].fields = None /\ req[t].require_auth = None
        /\ Cardinality(DOMAIN req[t].locals.example_data) = 3
        /\ req[t].locals.require_auth

(* ------------------ claims: lifetime of the configuration --------------- *)

\* the paths generate_api can compute from the names in S
PathsOf(S) == UNION {Range(endpoints(a, b)) : a \in S, b \in S}

\* C21: the configuration is empty exactly as long as no generation call has
\* replaced it: while it is empty no generated path is live (a GET of such a
\* path is answered not found), and from the first generation call on it is
\* never empty again.
C21_EmptyOnlyBeforeFirst ==
    /\ MOCK_CONFIG = <<>> <=> issued = <<>>
    /\ MOCK_CONFIG = <<>> =>
          /\ MockIndexes(routes) = {}
          /\ \A path \in PathsOf(OneName \cup Names), api_key \in {None, <<>>} :
                LiveAnswer(path, api_key) = <<404, Detail("Not Found")>>
    /\ MOCK_CONFIG # <<>> =>
          DOMAIN MOCK_CONFIG = {"api_key", "auth_required", "example_data", "endpoints"}

\* after two generation calls, both ended by a failed artifact write, a
\* download has been answered and the configuration is still there
C21_Witness ==
    \E t \in Threads :
        /\ Len(issued) = 2
        /\ req[t].kind = "download" /\ req[t].pc = "done"
        /\ DOMAIN files = {}
        /\ MOCK_CONFIG # <<>>

(* ----------------------- claims: order and lifetime --------------------- *)

\* the routes a generation call has registered when it is at pc (at its end:
\* when it got as far as the artifact write)
RoutesAt(pc) ==
    CASE pc \in {"handler", "route1"} -> 0
      [] pc = "route2" -> 1
      [] OTHER -> 2

ProbePaths(table) ==
    {table[i].path : i \in 1..Len(table)} \cup PathsOf(TemplateNames)

\* the request paths that the table dispatches to a mock handler
LiveIn(table) == {path \in ProbePaths(table) : Dispatch(table, path) \in MockIndexes(table)}

\* C23: a path that is live stays live across every step of the server (a
\* generation call for any names, a live request, a download): a GET of it is
\* still dispatched to a mock handler, never answered not found.
C23_LiveStaysLive ==
    [][routes' # routes =>
          /\ LiveIn(routes) \subseteq LiveIn(routes')
          /\ \A path \in LiveIn(routes) :
                LiveAnswer(path, None)' # <<404, Detail("Not Found")>>]_vars

\* after a second generation call for other names, a request to a path of the
\* first call, not one of the second, has been answered by a mock handler
C23_Witness ==
    \E t \in Threads :
        /\ LiveDone(req[t]) /\ req[t].status \in {200, 401}
        /\ Len(issued) = 2
        /\ routes[req[t].route].handler = 1
        /\ \A i \in RoutesOf(2) : ~PathMatches(routes[i].path, req[t].path)
        /\ RoutesOf(2) # {}

(* --------------------- claims: concurrent generations -------------------- *)

\* the configuration the generation call r stored
ConfigOf(r) == NewConfig(r.app1, r.app2, r.fields, r.require_auth, r.n)

\* the configuration is whole: when a call that other calls overlapped ends
\* and no call is running, MOCK_CONFIG is the configuration of that call or of
\* one of the overlapping calls, in all four fields
WholeConfig ==
    \A t \in Threads :
        (/\ GenerateEnded(req[t]) /\ req[t].seen # {}
         /\ \A u \in Threads : ~Generating(req[u]))
        => MOCK_CONFIG \in {ConfigOf(req[t])} \cup req[t].seen

\* C24: when generation calls that ran concurrently have all finished, the
\* configuration equals, in all four fields, the configuration of exactly one
\* of them, and the paths of each of them are live.
C24_OneOfTwo ==
    /\ WholeConfig
    /\ \A t \in Threads :
          (/\ GenerateEnded(req[t]) /\ req[t].seen # {}
           /\ \A u \in Threads : ~Generating(req[u]))
          => \A cfg \in {ConfigOf(req[t])} \cup req[t].seen :
                \A i \in 1..2 : Dispatch(routes, cfg["endpoints"][i]) \in MockIndexes(routes)

(* ------------------------- claims: frame of requests --------------------- *)

\* the three shared stores
Stores == <<MOCK_CONFIG, routes, files>>

\* C25: a step of a live request (permitted, rejected with 401) or of a
\* download (200, 404) leaves the configuration, the route table and the
\* artifact store as they were; every step that changes one of them is a step
\* of a generation call.
C25_OnlyGenerationWrites ==
    [][/\ \A t \in Threads :
             (req'[t] # req[t] /\ req'[t].kind \in {"live", "download"}) => Stores' = Stores
       /\ Stores' # Stores =>
             \E t \in Threads : req'[t] # req[t] /\ req'[t].kind = "generate"]_vars

\* an emitted artifact has been downloaded and is still in the store, with the
\* configuration and the generated routes in place
C25_Witness ==
    \E t \in Threads :
        /\ req[t].kind = "download" /\ req[t].pc = "done" /\ req[t].status = 200
        /\ req[t].file \in DOMAIN files
        /\ MOCK_CONFIG # <<>>
        /\ MockIndexes(routes) # {}

(* ------------------------ claims: built-in endpoints --------------------- *)

\* C26: whatever the names of the generation calls, the three routes declared
\* by the decorators stay at the head of the route table as they were, and a
\* GET of /generate_api, /download_api or / is dispatched to its own route,
\* never to a generated one.
C26_BuiltinsKept ==
    /\ Len(routes) >= Len(BuiltinRoutes)
    /\ \A i \in 1..Len(BuiltinRoutes) :
          /\ routes[i] = BuiltinRoutes[i]
          /\ Dispatch(routes, BuiltinRoutes[i].path) = i

\* two calls have registered their routes, a route with a path parameter and
\* a route without one among them
C26_Witness ==
    /\ Len(issued) = 2
    /\ RoutesOf(1) # {} /\ RoutesOf(2) # {}
    /\ \E i \in MockIndexes(routes) : IsParam(routes[i].path, 2)
    /\ \E i \in MockIndexes(routes) : \A k \in 1..Len(routes[i].path) : ~IsParam(routes[i].path, k)

(* ---------------------------- claims: progress --------------------------- *)

\* the thread t is serving a request whose response is not computed yet
InFlight(r) == r.pc \notin {"idle", "done"}

\* the response of a request: a generation call returns a response, a
\* request to a generated route the payload or the authentication failure
Answered(r) ==
    /\ r.pc = "done"
    /\ r.kind = "generate" => r.status \in {200, 422, 500}
    /\ (r.kind = "live" /\ r.route # 0) => r.status \in {200, 401}

\* C27: under fair scheduling every generation call and every live request
\* that has started gets its response, whatever the other thread does, and the
\* next step of a request in flight never depends on the state of another
\* request.
C27_NoBlocking ==
    /\ \A t \in Threads : InFlight(req[t]) ~> Answered(req[t])
    /\ [](\A t \in Threads : (InFlight(req[t]) /\ NoneDone) => ENABLED Continue(t))

\* a live request has been rejected with 401 while a generation call is
\* between its two route registrations
C27_Witness ==
    \E t \in Threads, u \in Threads :
        /\ req[t].kind = "live" /\ req[t].pc = "done" /\ req[t].status = 401
        /\ req[u].kind = "generate" /\ req[u].pc = "route2"

====
